---- MODULE Spec2Model ----
(***************************************************************************)
(* A model of pwdsphinx/oracle.py: the per-account record store and its    *)
(* request handlers (create, create_dkg, get, change, change_dkg, commit,  *)
(* undo, delete, read, update_blob), the proof-of-work challenge           *)
(* (create_challenge, verify_challenge) and the MAC key.                   *)
(*                                                                         *)
(* Byte strings are sequences of fields.  A field [w, c, t] stands for w   *)
(* bytes of kind c carrying the value t (a tuple of naturals), so that     *)
(* lengths, slices and concatenations are computed as the Python code      *)
(* computes them.  Cryptographic primitives are ideal: an OPRF evaluation, *)
(* a signature and a MAC are injective terms over their arguments.         *)
(***************************************************************************)
EXTENDS Integers, Sequences, FiniteSets, TLC

VARIABLES
  disk,   \* the data directory: [dd, dirs, files, mackey]
  conn,   \* the connection handled last: request, bytes sent (and the
          \* signature auth received), how it ended
  prev,   \* the account's files as they were when conn, a COMMIT or UNDO, began
  crash,  \* a worker running commit_undo one file operation at a time
  mw,     \* workers running create_challenge one step at a time
  vw,     \* a worker running verify_challenge one step at a time
  served, \* how many CHALLENGE_CREATE connections were accepted
  now,    \* the wall clock, in seconds
  sup,    \* the supervisor's accept loop: its position, the pids in kids, the
          \* pids of the workers still running
  pkt,    \* a worker in read_pkt: the stream of the peer and the loop's locals
  cw      \* workers running create or create_dkg one step at a time

vars == <<disk, conn, prev, crash, mw, vw, served, now, sup, pkt, cw>>

----------------------------------------------------------------------------
(* Byte strings *)

Fld(w, c, t) == [w |-> w, c |-> c, t |-> t]

RECURSIVE Size(_)
Size(b) == IF b = <<>> THEN 0 ELSE b[1].w + Size(Tail(b))

\* b[:n]
RECURSIVE Take(_, _)
Take(b, n) ==
  IF n <= 0 \/ b = <<>> THEN <<>>
  ELSE IF b[1].w <= n THEN <<b[1]>> \o Take(Tail(b), n - b[1].w)
  ELSE <<Fld(n, b[1].c, b[1].t)>>

\* b[n:]
RECURSIVE Drop(_, _)
Drop(b, n) ==
  IF n <= 0 \/ b = <<>> THEN b
  ELSE IF b[1].w <= n THEN Drop(Tail(b), n - b[1].w)
  ELSE <<Fld(b[1].w - n, b[1].c, b[1].t)>> \o Tail(b)

\* the value a byte string commits to under a hash, a signature or a MAC
RECURSIVE Digest(_)
Digest(b) == IF b = <<>> THEN <<>> ELSE <<b[1].w>> \o b[1].t \o Digest(Tail(b))

\* what load_blob returns for a path that does not exist (None)
NoFile == <<Fld(0, "absent", <<>>)>>

RULE_SIZE == 79

Scalars == {1, 2}
Indexes == {1}
Points == {0, 1}        \* 0 is not a valid group element
PubKeys == {1, 2}
BlobVals == {1}
AccountIds == {1}
Ids == {1, 2}
HostIds == {0, 2}       \* 0 is the all-zero id

Scalar(s) == <<Fld(32, "sc", <<s>>)>>
Share(i, s) == <<Fld(1, "idx", <<i>>)>> \o Scalar(s)
Point(a) == <<Fld(32, "pt", <<a>>)>>
Pub(p) == <<Fld(32, "pub", <<p>>)>>
Rules(r, n) == <<Fld(n, "rules", <<r>>)>>
IdBytes(i) == <<Fld(32, "id", <<i>>)>>
Op(o) == <<Fld(1, o, <<>>)>>
Nonce == <<Fld(32, "nonce", <<>>)>>

OkMsg == <<Fld(2, "ok", <<>>)>>
FailMsg == <<Fld(6, "fail", <<>>)>>
AuthMsg == <<Fld(6, "auth", <<>>)>>

\* a detached Ed25519 signature of m made with the secret key of public key p
Sign(p, m) == <<Fld(64, "sig", <<p>> \o Digest(m))>>

\* pysodium.crypto_sign_verify_detached(sig, msg, pk) does not raise
SigVerifies(sig, m, pk) ==
  /\ Len(pk) = 1 /\ pk[1].w = 32 /\ pk[1].c = "pub"
  /\ sig = Sign(pk[1].t[1], m)

\* verify_blob: the signature is the last 64 bytes, the message the rest
VerifyBlobOk(msg, pk) ==
  SigVerifies(Drop(msg, Size(msg) - 64), Take(msg, Size(msg) - 64), pk)

VerifiedBlob(msg) == Take(msg, Size(msg) - 64)

\* pyoprf.evaluate(k, alpha) returns: k is a 32-byte scalar, alpha a valid point
EvalOk(k, alpha) ==
  /\ Len(k) = 1 /\ k[1].w = 32 /\ k[1].c = "sc"
  /\ Len(alpha) = 1 /\ alpha[1].w = 32 /\ alpha[1].c = "pt" /\ alpha[1].t # <<0>>

Evaluate(k, alpha) == <<Fld(32, "beta", k[1].t \o alpha[1].t)>>

----------------------------------------------------------------------------
(* The record store *)

Names == {"key", "pub", "rules", "new", "pub.new", "rules.new",
          "old", "pub.old", "rules.old", "difficulty", "blob"}

EmptyDir == [f \in Names |-> NoFile]

EmptyDisk == [dd |-> FALSE,
              dirs |-> [i \in Ids |-> FALSE],
              files |-> [i \in Ids |-> EmptyDir],
              mackey |-> NoFile]

Exists(d, id) == d.dirs[id]

\* load_blob(path, fname) without a size
LoadBlob(d, id, fname) == IF d.dirs[id] THEN d.files[id][fname] ELSE NoFile

\* load_blob(path, fname, size) raises ValueError
LoadRaises(d, id, fname, size) ==
  /\ LoadBlob(d, id, fname) # NoFile
  /\ Size(LoadBlob(d, id, fname)) # size

SaveBlob(d, id, fname, blob) == [d EXCEPT !.files[id][fname] = blob]

Unlink(d, id, fname) == [d EXCEPT !.files[id][fname] = NoFile]

MkDataDir(d) == [d EXCEPT !.dd = TRUE]

Mkdir(d, id) == [d EXCEPT !.dirs[id] = TRUE]

RmTree(d, id) == [d EXCEPT !.dirs[id] = FALSE, !.files[id] = EmptyDir]

\* what a handler returns: the disk it leaves, the bytes it sent, how it ended
\* ("ok" ran to its end, "fail" through fail(), "exc" by an uncaught exception)
R(d, out, end) == [d |-> d, out |-> out, end |-> end]

Fail(d, out) == R(d, Append(out, FailMsg), "fail")

----------------------------------------------------------------------------
(* Requests *)

\* op || id || alpha (65 bytes), or op || id (33 bytes: READ, or a short read)
Req(o, i, a) == Op(o) \o IdBytes(i) \o Point(a)
ShortReq(o, i) == Op(o) \o IdBytes(i)
\* op || index || t || n || id || alpha (68 bytes)
DkgReq(x, i, a) ==
  Op("CREATE_DKG") \o <<Fld(1, "idx", <<x>>), Fld(1, "t", <<2>>), Fld(1, "n", <<3>>)>>
    \o IdBytes(i) \o Point(a)

\* binascii.hexlify(id).decode(): the directory name of a 32-byte id
HexId(b) == b[1].t[1]

ReqOp(msg) == msg[1].c
ReqId(msg) == HexId(SelectSeq(msg, LAMBDA f : f.c = "id"))
ReqAlpha(msg) == SelectSeq(msg, LAMBDA f : f.c = "pt")

\* pubkey || rules || signature, as the client sends it after beta; who signs
RecordMsg(p, r, who) == Pub(p) \o Rules(r, RULE_SIZE) \o Sign(who, Pub(p) \o Rules(r, RULE_SIZE))
\* the records a client submits: its public key and the rules it signs with it
Records == {<<1, 1>>, <<2, 2>>}
RecordMsgs ==
  {RecordMsg(pr[1], pr[2], who) : pr \in Records, who \in PubKeys}
    \cup {Pub(1)}                     \* a message that is too short

\* a host blob: 2-byte length prefix || body
BlobLen == 4
HostBlob(b) == <<Fld(2, "len", <<BlobLen>>), Fld(BlobLen, "blob", <<b>>)>>

----------------------------------------------------------------------------
(* update_blob *)

SignedIds ==
  {IdBytes(h) \o Sign(who, IdBytes(h)) : h \in HostIds, who \in PubKeys}
    \cup {IdBytes(2)}                  \* a short read

\* the enrolment of a new host id: the client sends pk || prefix || blob || sig
UpdateBlobNew(d, out, hid) ==
  LET out1 == Append(out, <<Fld(2, "len", <<0>>)>>) IN
  { LET blob == Pub(p) \o HostBlob(b)
        msg == blob \o Sign(who, blob)
        pk == Take(msg, 32)
    IN IF ~VerifyBlobOk(msg, pk) THEN Fail(d, out1)
       ELSE LET d1 == IF d.dd THEN d ELSE MkDataDir(d)
                d2 == IF Exists(d1, hid) THEN d1 ELSE Mkdir(d1, hid)
                d3 == SaveBlob(d2, hid, "pub", pk)
            IN R(SaveBlob(d3, hid, "blob", Drop(VerifiedBlob(msg), 32)), out1, "ret")
    : p \in PubKeys, b \in BlobVals, who \in PubKeys }

\* the update of a known host id: the client sends prefix || blob || sig
UpdateBlobOld(d, out, hid, signed_id, pk) ==
  IF ~VerifyBlobOk(signed_id, pk) THEN {Fail(d, out)}
  ELSE IF LoadBlob(d, hid, "blob") = NoFile THEN {Fail(d, out)}
  ELSE LET out1 == Append(out, LoadBlob(d, hid, "blob")) IN
    { LET msg == HostBlob(b) \o Sign(who, HostBlob(b))
      IN IF ~VerifyBlobOk(msg, LoadBlob(d, hid, "pub")) THEN Fail(d, out1)
         ELSE R(SaveBlob(d, hid, "blob", VerifiedBlob(msg)), out1, "ret")
      : b \in BlobVals, who \in PubKeys }

UpdateBlobOf(d, out, signed_id) ==
  IF Size(signed_id) # 32 + 64 THEN {Fail(d, out)}
  ELSE LET hid == HexId(Take(signed_id, 32)) IN
    IF hid = 0 THEN {R(d, out, "ret")}
    ELSE LET pk == LoadBlob(d, hid, "pub") IN
      IF pk = NoFile
      THEN IF Exists(d, hid) THEN {Fail(d, out)} ELSE UpdateBlobNew(d, out, hid)
      ELSE UpdateBlobOld(d, out, hid, signed_id, pk)

UpdateBlob(d, out) == UNION {UpdateBlobOf(d, out, sid) : sid \in SignedIds}

----------------------------------------------------------------------------
(* The handlers of one connection.  Each is the set of the results the     *)
(* handler can end with, over what the client sends and what randombytes   *)
(* and the DKG yield.                                                      *)

\* auth with a verification that accepts whatever signature it is sent
AuthAnySigner(d, out, id, alpha) ==
  IF LoadRaises(d, id, "pub", 32) THEN {R(d, out, "exc")}
  ELSE LET pk == LoadBlob(d, id, "pub")
           k == LoadBlob(d, id, "key")
       IN
    IF pk = NoFile THEN {Fail(d, out)}
    ELSE IF k # NoFile /\ ~EvalOk(Drop(k, 1), alpha) THEN {Fail(d, out)}
    ELSE LET beta == IF k # NoFile
                     THEN Take(k, 1) \o Evaluate(Drop(k, 1), alpha)
                     ELSE <<>>
             out1 == Append(out, beta \o Nonce)
         IN { R(d, Append(Append(out1, Sign(who, Nonce)), AuthMsg), "authed") : who \in PubKeys }

\* auth(s, id, alpha): ends "authed" after the auth marker is sent.  The
\* signature read by s.recv(64) is entered in the transcript out, after the
\* beta || nonce the server sent and before the marker.
Auth(d, out, id, alpha) ==
  IF LoadRaises(d, id, "pub", 32) THEN {R(d, out, "exc")}
  ELSE LET pk == LoadBlob(d, id, "pub")
           k == LoadBlob(d, id, "key")
       IN
    IF pk = NoFile THEN {Fail(d, out)}
    ELSE IF k # NoFile /\ ~EvalOk(Drop(k, 1), alpha) THEN {Fail(d, out)}
    ELSE LET beta == IF k # NoFile
                     THEN Take(k, 1) \o Evaluate(Drop(k, 1), alpha)
                     ELSE <<>>
             out1 == Append(out, beta \o Nonce)
         IN { LET sig == Sign(who, Nonce)
                  out2 == Append(out1, sig)
              IN IF SigVerifies(sig, Nonce, pk)
                 THEN R(d, Append(out2, AuthMsg), "authed")
                 ELSE Fail(d, out2)
              : who \in PubKeys }

\* the three save_blob calls that end create and create_dkg
StoreRecord(d, id, k, pk, rules) ==
  SaveBlob(SaveBlob(SaveBlob(d, id, "key", k), id, "pub", pk), id, "rules", rules)

\* create and create_dkg from the read of pubkey || rules || signature on
CreateTail(d, out, id, k) ==
  UNION { IF Size(msg) # 32 + RULE_SIZE + 64 THEN {Fail(d, out)}
          ELSE IF ~VerifyBlobOk(msg, Take(msg, 32)) THEN {Fail(d, out)}
          ELSE LET pk == Take(msg, 32)
                   rules == Drop(VerifiedBlob(msg), 32)
               IN UNION { IF u.end # "ret" THEN {u}
                          ELSE LET d1 == IF u.d.dd THEN u.d ELSE MkDataDir(u.d) IN
                            IF Exists(d1, id) THEN {R(d1, u.out, "exc")}   \* os.mkdir raises
                            ELSE {R(StoreRecord(Mkdir(d1, id), id, k, pk, rules),
                                    Append(u.out, OkMsg), "done")}
                          : u \in UpdateBlob(d, out) }
          : msg \in RecordMsgs }

\* create without the check that the id is unique
CreateOverExisting(d, msg) ==
  IF Size(msg) # 65 THEN {Fail(d, <<>>)}
  ELSE LET id == HexId(Take(Drop(msg, 1), 32))
           alpha == Take(Drop(msg, 33), 32)
       IN UNION { LET k == Scalar(s) IN
                  IF ~EvalOk(k, alpha) THEN {Fail(d, <<>>)}
                  ELSE CreateTail(d, <<Evaluate(k, alpha)>>, id, k)
                  : s \in Scalars }

Create(d, msg) ==
  IF Size(msg) # 65 THEN {Fail(d, <<>>)}
  ELSE LET id == HexId(Take(Drop(msg, 1), 32))
           alpha == Take(Drop(msg, 33), 32)
       IN
    IF Exists(d, id) THEN {Fail(d, <<>>)}
    ELSE UNION { LET k == Scalar(s) IN
                 IF ~EvalOk(k, alpha) THEN {Fail(d, <<>>)}
                 ELSE CreateTail(d, <<Evaluate(k, alpha)>>, id, k)
                 : s \in Scalars }

\* dkg(s, n, t, index, aux): a 33-byte share index || scalar, or the worker
\* ends in fail() (bad noisekey) or in an exception of the library
DkgShares(index) == {Share(index, s) : s \in Scalars}
DkgEnds == {"fail", "exc"}

CreateDkg(d, msg) ==
  IF Size(msg) # 68 THEN {Fail(d, <<>>)}
  ELSE LET index == Take(Drop(msg, 1), 1)[1].t[1]
           id == HexId(Take(Drop(msg, 4), 32))
           alpha == Take(Drop(msg, 36), 32)
       IN
    IF Exists(d, id) THEN {Fail(d, <<>>)}
    ELSE {IF e = "fail" THEN Fail(d, <<>>) ELSE R(d, <<>>, "exc") : e \in DkgEnds}
      \cup UNION { IF ~EvalOk(Drop(xi, 1), alpha) THEN {Fail(d, <<>>)}
                   ELSE CreateTail(d, <<Take(xi, 1) \o Evaluate(Drop(xi, 1), alpha)>>, id, xi)
                   : xi \in DkgShares(index) }

Get(d, msg) ==
  LET id == HexId(Take(Drop(msg, 1), 32))
      alpha == Take(Drop(msg, 33), 32)
      k == LoadBlob(d, id, "key")
      rules == LoadBlob(d, id, "rules")
  IN
  IF Drop(msg, 65) # <<>> THEN {Fail(d, <<>>)}
  ELSE IF LoadRaises(d, id, "key", 33) THEN {R(d, <<>>, "exc")}
  ELSE IF k = NoFile THEN {Fail(d, <<>>)}
  ELSE IF LoadRaises(d, id, "rules", RULE_SIZE) THEN {R(d, <<>>, "exc")}
  ELSE IF rules = NoFile THEN {Fail(d, <<>>)}
  ELSE IF ~EvalOk(Drop(k, 1), alpha) THEN {Fail(d, <<>>)}
  ELSE {R(d, <<Take(k, 1) \o Evaluate(Drop(k, 1), alpha) \o rules>>, "done")}

\* the three save_blob calls that end change and change_dkg
StageRecord(d, id, k, pk, rules) ==
  SaveBlob(SaveBlob(SaveBlob(d, id, "new", k), id, "rules.new", rules), id, "pub.new", pk)

\* change and change_dkg from the read of pubkey || rules || signature on
ChangeTail(d, out, id, k) ==
  { IF Size(blob) # 32 + RULE_SIZE + 64 THEN Fail(d, out)
    ELSE IF ~VerifyBlobOk(blob, Take(blob, 32)) THEN Fail(d, out)
    ELSE R(StageRecord(d, id, k, Take(blob, 32), Drop(VerifiedBlob(blob), 32)),
           Append(out, OkMsg), "done")
    : blob \in RecordMsgs }

Change(d, msg) ==
  LET id == HexId(Take(Drop(msg, 1), 32))
      alpha == Take(Drop(msg, 33), 32)
  IN
  IF Drop(msg, 65) # <<>> THEN {Fail(d, <<>>)}
  ELSE IF ~Exists(d, id) THEN {Fail(d, <<>>)}
  ELSE UNION { IF a.end # "authed" THEN {a}
               ELSE {Fail(d, a.out)}     \* the new alpha is short
                 \cup UNION { LET k == Scalar(s) IN
                              IF ~EvalOk(k, Point(p)) THEN {Fail(d, a.out)}
                              ELSE ChangeTail(d, Append(a.out, Evaluate(k, Point(p))), id, k)
                              : s \in Scalars, p \in Points }
               : a \in Auth(d, <<>>, id, alpha) }

\* after auth the client sends t || n || index || alpha (35 bytes)
ChangeDkg(d, msg) ==
  LET id == HexId(Take(Drop(msg, 1), 32))
      alpha == Take(Drop(msg, 33), 32)
  IN
  IF Drop(msg, 65) # <<>> THEN {Fail(d, <<>>)}
  ELSE IF ~Exists(d, id) THEN {Fail(d, <<>>)}
  ELSE UNION { IF a.end # "authed" THEN {a}
               ELSE {IF e = "fail" THEN Fail(d, a.out) ELSE R(d, a.out, "exc") : e \in DkgEnds}
                 \cup UNION { LET m == <<Fld(1, "t", <<2>>), Fld(1, "n", <<3>>), Fld(1, "idx", <<x>>)>>
                                       \o Point(p)
                                  alpha2 == Drop(m, 3)
                              IN UNION { IF ~EvalOk(Drop(xi, 1), alpha2) THEN {Fail(d, a.out)}
                                         ELSE ChangeTail(d,
                                                Append(a.out, Take(xi, 1) \o Evaluate(Drop(xi, 1), alpha2)),
                                                id, xi)
                                         : xi \in DkgShares(Take(Drop(m, 2), 1)[1].t[1]) }
                              : x \in Indexes, p \in Points }
               : a \in Auth(d, <<>>, id, alpha) }

Delete(d, msg) ==
  LET id == HexId(Take(Drop(msg, 1), 32))
      alpha == Take(Drop(msg, 33), 32)
  IN
  IF Drop(msg, 65) # <<>> THEN {Fail(d, <<>>)}
  ELSE IF ~Exists(d, id) THEN {Fail(d, <<>>)}
  ELSE UNION { IF a.end # "authed" THEN {a}
               ELSE { IF u.end # "ret" THEN u
                      ELSE R(RmTree(u.d, id), Append(u.out, OkMsg), "done")
                      : u \in UpdateBlob(d, a.out) }
               : a \in Auth(d, <<>>, id, alpha) }

Read(d, msg) ==
  LET id == HexId(Take(Drop(msg, 1), 32))
      alpha == Take(Drop(msg, 33), 32)
  IN
  { IF a.end # "authed" THEN a
    ELSE LET blob == LoadBlob(d, id, "blob")
         IN R(d, Append(a.out, IF blob = NoFile THEN <<>> ELSE blob), "done")
    : a \in Auth(d, <<>>, id, alpha) }

----------------------------------------------------------------------------
(* commit_undo(conn, msg, new, old) *)

\* 'rules.%s' % x and 'pub.%s' % x for x in {'new', 'old'}
RulesName(x) == IF x = "new" THEN "rules.new" ELSE "rules.old"
PubName(x) == IF x = "new" THEN "pub.new" ELSE "pub.old"

\* the six load_blob calls, in the order of the code
CommitLoads(new) ==
  << [f |-> RulesName(new), size |-> RULE_SIZE], [f |-> "rules", size |-> RULE_SIZE],
     [f |-> PubName(new), size |-> 32], [f |-> "pub", size |-> 32],
     [f |-> new, size |-> 33], [f |-> "key", size |-> 33] >>

\* the loads taking an absent file for an empty one
RECURSIVE LoadsEndSkipsAbsent(_, _, _)
LoadsEndSkipsAbsent(d, id, loads) ==
  IF loads = <<>> THEN "ok"
  ELSE IF LoadRaises(d, id, loads[1].f, loads[1].size) THEN "exc"
  ELSE LoadsEndSkipsAbsent(d, id, Tail(loads))

\* how the loads end: "exc" at the first wrong size, "fail" at the first
\* absent file, "ok" when all six are read
RECURSIVE LoadsEnd(_, _, _)
LoadsEnd(d, id, loads) ==
  IF loads = <<>> THEN "ok"
  ELSE IF LoadRaises(d, id, loads[1].f, loads[1].size) THEN "exc"
  ELSE IF LoadBlob(d, id, loads[1].f) = NoFile THEN "fail"
  ELSE LoadsEnd(d, id, Tail(loads))

\* commit_undo with the first save_blob writing the promoted key, not the live one
CommitOpsOldFromNew(d, id, new, old) ==
  << [op |-> "save", f |-> old, b |-> LoadBlob(d, id, new)],
     [op |-> "save", f |-> RulesName(old), b |-> LoadBlob(d, id, "rules")],
     [op |-> "save", f |-> PubName(old), b |-> LoadBlob(d, id, "pub")],
     [op |-> "save", f |-> "key", b |-> LoadBlob(d, id, new)],
     [op |-> "save", f |-> "rules", b |-> LoadBlob(d, id, RulesName(new))],
     [op |-> "save", f |-> "pub", b |-> LoadBlob(d, id, PubName(new))],
     [op |-> "unlink", f |-> new, b |-> NoFile],
     [op |-> "unlink", f |-> PubName(new), b |-> NoFile],
     [op |-> "unlink", f |-> RulesName(new), b |-> NoFile] >>

\* commit_undo that forgets to unlink the promoted key file
CommitOpsKeepsKey(d, id, new, old) ==
  << [op |-> "save", f |-> old, b |-> LoadBlob(d, id, "key")],
     [op |-> "save", f |-> RulesName(old), b |-> LoadBlob(d, id, "rules")],
     [op |-> "save", f |-> PubName(old), b |-> LoadBlob(d, id, "pub")],
     [op |-> "save", f |-> "key", b |-> LoadBlob(d, id, new)],
     [op |-> "save", f |-> "rules", b |-> LoadBlob(d, id, RulesName(new))],
     [op |-> "save", f |-> "pub", b |-> LoadBlob(d, id, PubName(new))],
     [op |-> "unlink", f |-> PubName(new), b |-> NoFile],
     [op |-> "unlink", f |-> RulesName(new), b |-> NoFile] >>

\* the six save_blob and three os.unlink calls, in the order of the code,
\* over the values the loads read from disk d
CommitOps(d, id, new, old) ==
  << [op |-> "save", f |-> old, b |-> LoadBlob(d, id, "key")],
     [op |-> "save", f |-> RulesName(old), b |-> LoadBlob(d, id, "rules")],
     [op |-> "save", f |-> PubName(old), b |-> LoadBlob(d, id, "pub")],
     [op |-> "save", f |-> "key", b |-> LoadBlob(d, id, new)],
     [op |-> "save", f |-> "rules", b |-> LoadBlob(d, id, RulesName(new))],
     [op |-> "save", f |-> "pub", b |-> LoadBlob(d, id, PubName(new))],
     [op |-> "unlink", f |-> new, b |-> NoFile],
     [op |-> "unlink", f |-> PubName(new), b |-> NoFile],
     [op |-> "unlink", f |-> RulesName(new), b |-> NoFile] >>

ApplyOp(d, id, o) ==
  IF o.op = "save" THEN SaveBlob(d, id, o.f, o.b) ELSE Unlink(d, id, o.f)

\* the disk after the first n operations of ops
RECURSIVE ApplyOps(_, _, _, _)
ApplyOps(d, id, ops, n) ==
  IF n = 0 THEN d ELSE ApplyOp(ApplyOps(d, id, ops, n - 1), id, ops[n])

CommitUndo(d, msg, new, old) ==
  LET id == HexId(Take(Drop(msg, 1), 32))
      alpha == Take(Drop(msg, 33), 32)
  IN
  IF Drop(msg, 65) # <<>> THEN {Fail(d, <<>>)}
  ELSE IF ~Exists(d, id) THEN {Fail(d, <<>>)}
  ELSE { IF a.end # "authed" THEN a
         ELSE IF LoadsEnd(d, id, CommitLoads(new)) = "exc" THEN R(d, a.out, "exc")
         ELSE IF LoadsEnd(d, id, CommitLoads(new)) = "fail" THEN Fail(d, a.out)
         ELSE LET ops == CommitOps(d, id, new, old)
              IN R(ApplyOps(d, id, ops, Len(ops)), Append(a.out, OkMsg), "done")
         : a \in Auth(d, <<>>, id, alpha) }

\* handler(conn, data): the dispatch on the first byte of the request
Handler(d, msg) ==
  CASE ReqOp(msg) = "GET" -> Get(d, msg)
    [] ReqOp(msg) = "CHANGE" -> Change(d, msg)
    [] ReqOp(msg) = "CHANGE_DKG" -> ChangeDkg(d, msg)
    [] ReqOp(msg) = "DELETE" -> Delete(d, msg)
    [] ReqOp(msg) = "COMMIT" -> CommitUndo(d, msg, "new", "old")
    [] ReqOp(msg) = "UNDO" -> CommitUndo(d, msg, "old", "new")
    [] ReqOp(msg) = "READ" -> Read(d, msg)
    [] OTHER -> {R(d, <<>>, "done")}

----------------------------------------------------------------------------
(* The store under connections served one after the other *)

IdlePkt == [pc |-> "idle", size |-> 0, read |-> 0, res |-> <<>>, peer |-> <<>>, stream |-> <<>>, closed |-> FALSE]
IdleCreator == [pc |-> "idle", req |-> <<>>, k |-> NoFile, pk |-> NoFile, rules |-> NoFile,
                hid |-> 0, hpk |-> NoFile, hblob |-> NoFile, out |-> <<>>]
IdleCreate == [w \in {1, 2} |-> IdleCreator]
IdleSup == [pc |-> "accept", kids |-> {}, live |-> {}]
NoConn == [req |-> <<>>, out |-> <<>>, end |-> "none"]
IdleCrash == [pc |-> "idle", id |-> 1, ops |-> <<>>, n |-> 0, pre |-> EmptyDir]
Workers == {1, 2}
IdleWorker == [pc |-> "idle", req |-> <<>>, diff |-> NoFile, challenge |-> <<>>, key |-> NoFile,
               out |-> <<>>]
IdleMac == [w \in Workers |-> IdleWorker]
IdleVerify == [pc |-> "idle", challenge |-> <<>>, req |-> <<>>, key |-> NoFile,
               tnow |-> -1, sol |-> <<>>, log |-> <<>>, out |-> <<>>, dispatched |-> <<>>]

Init ==
  /\ disk = EmptyDisk
  /\ conn = NoConn
  /\ prev = EmptyDir
  /\ crash = IdleCrash
  /\ mw = IdleMac
  /\ vw = IdleVerify
  /\ served = 0
  /\ sup = IdleSup
  /\ pkt = IdlePkt
  /\ cw = IdleCreate
  /\ now = 0

\* one connection: the request msg is served with one of the handler's results
Serve(msg, results) ==
  /\ \E r \in results :
       /\ disk' = r.d
       /\ conn' = [req |-> msg, out |-> r.out, end |-> r.end]
  /\ prev' = IF ReqOp(msg) \in {"COMMIT", "UNDO"} THEN disk.files[ReqId(msg)] ELSE EmptyDir
  /\ UNCHANGED <<crash, mw, vw, served, now, sup, pkt, cw>>

\* ratelimit(): op == CREATE
DoCreate ==
  \E i \in AccountIds :
    \/ \E a \in Points : Serve(Req("CREATE", i, a), Create(disk, Req("CREATE", i, a)))
    \/ Serve(ShortReq("CREATE", i), Create(disk, ShortReq("CREATE", i)))

\* ratelimit(): op == CREATE_DKG
DoCreateDkg ==
  \E i \in AccountIds, x \in Indexes, a \in Points :
    Serve(DkgReq(x, i, a), CreateDkg(disk, DkgReq(x, i, a)))

\* verify_challenge() has verified the request and calls handler(conn, req)
AccountOps == {"GET", "CHANGE", "CHANGE_DKG", "DELETE", "COMMIT", "UNDO"}

DoHandler ==
  \E o \in AccountOps \cup {"UNKNOWN"}, i \in AccountIds, a \in Points :
    Serve(Req(o, i, a), Handler(disk, Req(o, i, a)))

DoRead ==
  \E i \in Ids : Serve(ShortReq("READ", i), Handler(disk, ShortReq("READ", i)))

Next == DoCreate \/ DoCreateDkg \/ DoHandler \/ DoRead

Spec == Init /\ [][Next]_vars

----------------------------------------------------------------------------
(* What a connection shows *)

ConnOp(c) == IF c.req = <<>> THEN "none" ELSE ReqOp(c.req)
ConnId(c) == ReqId(c.req)

\* the last thing the server sent is 'ok'
SentOk(c) == c.out # <<>> /\ c.out[Len(c.out)] = OkMsg

\* the auth handshake sent its marker
Authed(c) == \E n \in 1..Len(c.out) : c.out[n] = AuthMsg

Live(f) == <<f["key"], f["pub"], f["rules"]>>
Shadow(f) == <<f["new"], f["pub.new"], f["rules.new"]>>
Old(f) == <<f["old"], f["pub.old"], f["rules.old"]>>
Absent == <<NoFile, NoFile, NoFile>>

\* conn is a COMMIT that replied 'ok'; prev holds the files it started from
CommitDone == ConnOp(conn) = "COMMIT" /\ SentOk(conn)
UndoDone == ConnOp(conn) = "UNDO" /\ SentOk(conn)

(* C1: after a COMMIT that replied 'ok', the live triple is the shadow     *)
(* triple of the state the COMMIT started from, the .old triple is that    *)
(* state's live triple, and new, pub.new and rules.new do not exist.       *)
C1_CommitPromotes ==
  CommitDone =>
    LET f == disk.files[ConnId(conn)] IN
      /\ disk.dirs[ConnId(conn)]
      /\ Live(f) = Shadow(prev)
      /\ Old(f) = Live(prev)
      /\ Shadow(f) = Absent

C1_Witness ==
  /\ CommitDone
  /\ Shadow(prev) # Absent
  /\ Live(prev) # Shadow(prev)
  /\ Live(disk.files[ConnId(conn)]) = Shadow(prev)

C3_RoundTrip ==
  [][ ( /\ ConnOp(conn) \in {"CREATE", "CREATE_DKG"} /\ SentOk(conn)
        /\ ConnOp(conn') = "GET"
        /\ ConnId(conn') = ConnId(conn)
        /\ ReqAlpha(conn'.req) = ReqAlpha(conn.req) )
        => /\ conn'.end = "done"
           /\ Len(conn'.out) = 1
           /\ IF ConnOp(conn) = "CREATE"
              THEN Take(Drop(conn'.out[1], 1), 32) = conn.out[1]
              ELSE Take(conn'.out[1], 33) = conn.out[1] ]_vars

(* C4: a COMMIT that authenticates directly after a CHANGE or CHANGE_DKG   *)
(* that replied 'ok' replies 'ok'; a GET directly after a successful       *)
(* COMMIT evaluates alpha with the key that was staged; a GET directly     *)
(* after a successful UNDO evaluates with the key the UNDO found in old,   *)
(* the key that was live before the COMMIT.                                *)
GetUses(c, k) ==
  EvalOk(Drop(k, 1), ReqAlpha(c.req)) =>
    /\ c.end = "done"
    /\ Len(c.out) = 1
    /\ Take(c.out[1], 33) = Take(k, 1) \o Evaluate(Drop(k, 1), ReqAlpha(c.req))

C4_ChangeCommitGetUndo ==
  [][ /\ ( /\ ConnOp(conn) \in {"CHANGE", "CHANGE_DKG"} /\ SentOk(conn)
           /\ ConnOp(conn') = "COMMIT" /\ ConnId(conn') = ConnId(conn)
           /\ Authed(conn') )
           => SentOk(conn')
      /\ (CommitDone /\ ConnOp(conn') = "GET" /\ ConnId(conn') = ConnId(conn))
           => GetUses(conn', prev["new"])
      /\ (UndoDone /\ ConnOp(conn') = "GET" /\ ConnId(conn') = ConnId(conn))
           => GetUses(conn', prev["old"]) ]_vars

(* C6: for every id, the directory <datadir>/<id> exists if and only if    *)
(* its files key, pub and rules are present with 33, 32 and RULE_SIZE      *)
(* bytes.                                                                  *)
C6_DirIffRecord ==
  \A i \in Ids :
    disk.dirs[i] <=>
      /\ disk.files[i]["key"] # NoFile /\ Size(disk.files[i]["key"]) = 33
      /\ disk.files[i]["pub"] # NoFile /\ Size(disk.files[i]["pub"]) = 32
      /\ disk.files[i]["rules"] # NoFile /\ Size(disk.files[i]["rules"]) = RULE_SIZE

----------------------------------------------------------------------------
(* COMMIT one file operation at a time, in a worker that may stop *)

\* the records create_dkg and change_dkg store: a 33-byte share, the client's
\* public key and rules
DkgTriples ==
  {<<Share(x, s), Pub(pr[1]), Rules(pr[2], RULE_SIZE)>> :
     x \in Indexes, s \in Scalars, pr \in Records}

\* an account directory holding a live, a staged and possibly an old triple
AccountDir(live, shadow, old) ==
  [f \in Names |->
     CASE f = "key" -> live[1] [] f = "pub" -> live[2] [] f = "rules" -> live[3]
       [] f = "new" -> shadow[1] [] f = "pub.new" -> shadow[2] [] f = "rules.new" -> shadow[3]
       [] f = "old" -> old[1] [] f = "pub.old" -> old[2] [] f = "rules.old" -> old[3]
       [] OTHER -> NoFile]

AccountDisk(id, dir) ==
  [EmptyDisk EXCEPT !.dd = TRUE, !.dirs[id] = TRUE, !.files[id] = dir]

\* the stores a COMMIT can find: an account made by CREATE_DKG, a record
\* staged by CHANGE_DKG, and the .old triple of an earlier COMMIT or none
InitCrash ==
  /\ disk \in {AccountDisk(1, AccountDir(l, sh, o)) :
                 l \in DkgTriples, sh \in DkgTriples, o \in DkgTriples \cup {Absent}}
  /\ conn = NoConn
  /\ prev = EmptyDir
  /\ crash = IdleCrash
  /\ mw = IdleMac
  /\ vw = IdleVerify
  /\ served = 0
  /\ sup = IdleSup
  /\ pkt = IdlePkt
  /\ cw = IdleCreate
  /\ now = 0

\* commit_undo up to the last load_blob: the request is parsed, the client
\* authenticated and the six blobs read
CommitBegin ==
  /\ crash.pc = "idle"
  /\ \E i \in AccountIds, p \in Points :
       LET msg == Req("COMMIT", i, p) IN
       \E a \in Auth(disk, <<>>, i, Take(Drop(msg, 33), 32)) :
         LET le == LoadsEnd(disk, i, CommitLoads("new")) IN
         /\ Drop(msg, 65) = <<>> /\ Exists(disk, i)
         /\ IF a.end = "authed" /\ le = "ok"
            THEN /\ crash' = [pc |-> "run", id |-> i, ops |-> CommitOps(disk, i, "new", "old"),
                              n |-> 0, pre |-> disk.files[i]]
                 /\ conn' = [req |-> msg, out |-> a.out, end |-> "running"]
            ELSE /\ crash' = [crash EXCEPT !.pc = "ended"]
                 /\ conn' = IF a.end # "authed" THEN [req |-> msg, out |-> a.out, end |-> a.end]
                            ELSE IF le = "exc" THEN [req |-> msg, out |-> a.out, end |-> "exc"]
                            ELSE [req |-> msg, out |-> Append(a.out, FailMsg), end |-> "fail"]
  /\ UNCHANGED <<disk, prev, mw, vw, served, now, sup, pkt, cw>>

\* the next save_blob or os.unlink of commit_undo
CommitStep ==
  /\ crash.pc = "run"
  /\ crash.n < Len(crash.ops)
  /\ disk' = ApplyOp(disk, crash.id, crash.ops[crash.n + 1])
  /\ crash' = [crash EXCEPT !.n = crash.n + 1]
  /\ UNCHANGED <<conn, prev, mw, vw, served, now, sup, pkt, cw>>

\* conn.send(b'ok')
CommitReply ==
  /\ crash.pc = "run"
  /\ crash.n = Len(crash.ops)
  /\ crash' = [crash EXCEPT !.pc = "ended"]
  /\ conn' = [conn EXCEPT !.out = Append(conn.out, OkMsg), !.end = "done"]
  /\ UNCHANGED <<disk, prev, mw, vw, served, now, sup, pkt, cw>>

\* the worker process is killed, or the machine stops
WorkerStops ==
  /\ crash.pc = "run"
  /\ crash' = [crash EXCEPT !.pc = "dead"]
  /\ conn' = [conn EXCEPT !.end = "killed"]
  /\ UNCHANGED <<disk, prev, mw, vw, served, now, sup, pkt, cw>>

NextCrash == CommitBegin \/ CommitStep \/ CommitReply \/ WorkerStops

SpecCrash == InitCrash /\ [][NextCrash]_vars

\* the post-commit configuration of the files f
PostCommit(f) ==
  [f EXCEPT !["key"] = f["new"], !["pub"] = f["pub.new"], !["rules"] = f["rules.new"],
            !["old"] = f["key"], !["pub.old"] = f["pub"], !["rules.old"] = f["rules"],
            !["new"] = NoFile, !["pub.new"] = NoFile, !["rules.new"] = NoFile]

(* C5: when the worker running COMMIT has stopped between two of its file  *)
(* operations, the account's files are those before the COMMIT or those    *)
(* after it, never a mixture.                                              *)
C5_CrashAtomic ==
  crash.pc = "dead" =>
    \/ disk.files[crash.id] = crash.pre
    \/ disk.files[crash.id] = PostCommit(crash.pre)

----------------------------------------------------------------------------
(* The rate limiter *)

Difficulties ==
  << [n |-> 60, k |-> 4, timeout |-> 1], [n |-> 65, k |-> 4, timeout |-> 2],
     [n |-> 70, k |-> 4, timeout |-> 4], [n |-> 75, k |-> 4, timeout |-> 9],
     [n |-> 80, k |-> 4, timeout |-> 16], [n |-> 85, k |-> 4, timeout |-> 32],
     [n |-> 90, k |-> 4, timeout |-> 80], [n |-> 95, k |-> 4, timeout |-> 160],
     [n |-> 100, k |-> 4, timeout |-> 320], [n |-> 105, k |-> 4, timeout |-> 640],
     [n |-> 110, k |-> 4, timeout |-> 1280], [n |-> 115, k |-> 4, timeout |-> 2560],
     [n |-> 120, k |-> 4, timeout |-> 5120] >>

\* RL_Timeouts[(n, k)]
InLadder(n, k) == \E l \in 1..Len(Difficulties) : Difficulties[l].n = n /\ Difficulties[l].k = k
RL_Timeouts(n, k) ==
  Difficulties[CHOOSE l \in 1..Len(Difficulties) :
                 Difficulties[l].n = n /\ Difficulties[l].k = k].timeout

rl_decay == 1800
rl_threshold == 1
rl_gracetime == 10

\* the 9-byte rate-limit context: level u8 || count u32 || ts u32
RlCtx(level, count, ts) ==
  <<Fld(1, "level", <<level>>), Fld(4, "count", <<count>>), Fld(4, "ts", <<ts>>)>>

\* the fields of a stored rate-limit context
RlLevel(diff) == Take(diff, 1)[1].t[1]
RlCount(diff) == Take(Drop(diff, 1), 4)[1].t[1]
RlTs(diff) == Drop(diff, 5)[1].t[1]

\* the escalation resetting count also on the last rung
RlNextSaturateResets(diff, t) ==
  IF diff = NoFile \/ diff = <<>> THEN [level |-> 0, count |-> 0]
  ELSE IF RlLevel(diff) >= Len(Difficulties) THEN [level |-> Len(Difficulties) - 1, count |-> 0]
  ELSE IF (t - rl_decay) > RlTs(diff) /\ RlLevel(diff) > 0
  THEN LET periods == (t - RlTs(diff)) \div rl_decay
       IN [level |-> IF RlLevel(diff) >= periods THEN RlLevel(diff) - periods ELSE 0, count |-> 0]
  ELSE IF RlCount(diff) >= rl_threshold
  THEN [level |-> IF RlLevel(diff) < Len(Difficulties) - 1 THEN RlLevel(diff) + 1 ELSE RlLevel(diff),
        count |-> 0]
  ELSE [level |-> RlLevel(diff), count |-> RlCount(diff) + 1]

\* the decay stepping one level down whatever the silence
RlNextDecayOne(diff, t) ==
  IF diff = NoFile \/ diff = <<>> THEN [level |-> 0, count |-> 0]
  ELSE IF RlLevel(diff) >= Len(Difficulties) THEN [level |-> Len(Difficulties) - 1, count |-> 0]
  ELSE IF (t - rl_decay) > RlTs(diff) /\ RlLevel(diff) > 0
  THEN [level |-> RlLevel(diff) - 1, count |-> 0]
  ELSE IF RlCount(diff) >= rl_threshold /\ RlLevel(diff) < Len(Difficulties) - 1
  THEN [level |-> RlLevel(diff) + 1, count |-> 0]
  ELSE [level |-> RlLevel(diff), count |-> RlCount(diff) + 1]

\* the decay keeping the count
RlNextDecayKeepsCount(diff, t) ==
  IF diff = NoFile \/ diff = <<>> THEN [level |-> 0, count |-> 0]
  ELSE IF RlLevel(diff) >= Len(Difficulties) THEN [level |-> Len(Difficulties) - 1, count |-> 0]
  ELSE IF (t - rl_decay) > RlTs(diff) /\ RlLevel(diff) > 0
  THEN LET periods == (t - RlTs(diff)) \div rl_decay
       IN [level |-> IF RlLevel(diff) >= periods THEN RlLevel(diff) - periods ELSE 0,
           count |-> RlCount(diff)]
  ELSE IF RlCount(diff) >= rl_threshold /\ RlLevel(diff) < Len(Difficulties) - 1
  THEN [level |-> RlLevel(diff) + 1, count |-> 0]
  ELSE [level |-> RlLevel(diff), count |-> RlCount(diff) + 1]

\* the level and count create_challenge goes on with, from the stored
\* context diff (NoFile: none yet) at time t
RlNext(diff, t) ==
  IF diff = NoFile \/ diff = <<>> THEN [level |-> 0, count |-> 0]
  ELSE LET level == Take(diff, 1)[1].t[1]
           count == Take(Drop(diff, 1), 4)[1].t[1]
           ts == Drop(diff, 5)[1].t[1]
       IN
    IF level >= Len(Difficulties) THEN [level |-> Len(Difficulties) - 1, count |-> 0]
    ELSE IF (t - rl_decay) > ts /\ level > 0
    THEN LET periods == (t - ts) \div rl_decay
         IN [level |-> IF level >= periods THEN level - periods ELSE 0, count |-> 0]
    ELSE IF count >= rl_threshold /\ level < Len(Difficulties) - 1
    THEN [level |-> level + 1, count |-> 0]
    ELSE [level |-> level, count |-> count + 1]

\* bytes([n, k]) || struct.pack('Q', int(now))
Challenge(n, k, ts) == <<Fld(1, "n", <<n>>), Fld(1, "k", <<k>>), Fld(8, "ts", <<ts>>)>>

\* the 32-byte keyed generic hash of m under key
Mac(key, m) == <<Fld(32, "mac", key[1].t \o Digest(m))>>

MacKeys == {1, 2}
MacKey(x) == <<Fld(32, "mackey", <<x>>)>>

\* the difficulty saved with the directory made when it is missing
SaveDifficultyMakesDir(d, id, ctx) == SaveBlob(Mkdir(MkDataDir(d), id), id, "difficulty", ctx)

\* save_blob(id, 'difficulty', rl_ctx), the FileNotFoundError of a missing
\* directory swallowed
SaveDifficulty(d, id, ctx) == IF Exists(d, id) THEN SaveBlob(d, id, "difficulty", ctx) ELSE d

----------------------------------------------------------------------------
(* create_challenge in concurrent workers, one step at a time *)

MaxChallenges == 3

ChalReqs == {Req("GET", 1, 1), ShortReq("READ", 2), ShortReq("GET", 1)}

InitMac ==
  /\ disk \in {EmptyDisk, MkDataDir(EmptyDisk)}
        \cup {AccountDisk(1, AccountDir(l, Absent, Absent)) : l \in DkgTriples}
  /\ conn = NoConn
  /\ prev = EmptyDir
  /\ crash = IdleCrash
  /\ mw = IdleMac
  /\ vw = IdleVerify
  /\ served = 0
  /\ sup = IdleSup
  /\ pkt = IdlePkt
  /\ cw = IdleCreate
  /\ now \in {0, 1}

\* from the read of the request to the composed challenge: the difficulty
\* of the id is stepped and saved
ChallengeBegin(w) ==
  /\ mw[w].pc = "idle"
  /\ served < MaxChallenges
  /\ served' = served + 1
  /\ \E req \in ChalReqs :
       IF (ReqOp(req) = "READ" /\ Size(req) # 33) \/ (ReqOp(req) # "READ" /\ Size(req) # 65)
       THEN /\ mw' = [mw EXCEPT ![w] = [IdleWorker EXCEPT !.pc = "failed", !.req = req,
                                                          !.out = <<FailMsg>>]]
            /\ disk' = disk
       ELSE LET id == HexId(Take(Drop(req, 1), 32))
                diff == LoadBlob(disk, id, "difficulty")
            IN IF LoadRaises(disk, id, "difficulty", 9)
               THEN /\ mw' = [mw EXCEPT ![w] = [IdleWorker EXCEPT !.pc = "exc", !.req = req]]
                    /\ disk' = disk
               ELSE LET nx == RlNext(diff, now)
                        e == Difficulties[nx.level + 1]
                    IN /\ disk' = SaveDifficulty(disk, id, RlCtx(nx.level, nx.count, now))
                       /\ mw' = [mw EXCEPT ![w] = [IdleWorker EXCEPT !.pc = "loadkey", !.req = req,
                                                     !.diff = diff,
                                                     !.challenge = Challenge(e.n, e.k, now)]]
  /\ UNCHANGED <<conn, prev, crash, vw, now, sup, pkt, cw>>

\* key = load_blob('', "key", 32)
ChallengeLoadKey(w) ==
  /\ mw[w].pc = "loadkey"
  /\ mw' = [mw EXCEPT ![w] =
              IF disk.mackey # NoFile /\ Size(disk.mackey) # 32 THEN [@ EXCEPT !.pc = "exc"]
              ELSE IF disk.mackey = NoFile THEN [@ EXCEPT !.pc = "genkey"]
              ELSE [@ EXCEPT !.pc = "sign", !.key = disk.mackey]]
  /\ UNCHANGED <<disk, conn, prev, crash, vw, served, now, sup, pkt, cw>>

\* key = pysodium.randombytes(32); save_blob('', 'key', key)
ChallengeGenKey(w) ==
  /\ mw[w].pc = "genkey"
  /\ \E x \in MacKeys :
       IF disk.dd
       THEN /\ disk' = [disk EXCEPT !.mackey = MacKey(x)]
            /\ mw' = [mw EXCEPT ![w] = [@ EXCEPT !.pc = "sign", !.key = MacKey(x)]]
       ELSE /\ disk' = disk               \* open() raises FileNotFoundError
            /\ mw' = [mw EXCEPT ![w] = [@ EXCEPT !.pc = "exc"]]
  /\ UNCHANGED <<conn, prev, crash, vw, served, now, sup, pkt, cw>>

\* sig = MAC(key, req || challenge); conn.send(challenge || sig)
ChallengeSend(w) ==
  /\ mw[w].pc = "sign"
  /\ mw' = [mw EXCEPT ![w] = [@ EXCEPT !.pc = "sent",
              !.out = mw[w].challenge \o Mac(mw[w].key, mw[w].req \o mw[w].challenge)]]
  /\ UNCHANGED <<disk, conn, prev, crash, vw, served, now, sup, pkt, cw>>

\* the worker exits; the supervisor forks the next one
WorkerExit(w) ==
  /\ mw[w].pc \in {"sent", "failed", "exc"}
  /\ mw' = [mw EXCEPT ![w] = IdleWorker]
  /\ UNCHANGED <<disk, conn, prev, crash, vw, served, now, sup, pkt, cw>>

NextMac ==
  \E w \in Workers :
    \/ ChallengeBegin(w) \/ ChallengeLoadKey(w) \/ ChallengeGenKey(w)
    \/ ChallengeSend(w) \/ WorkerExit(w)

SpecMac == InitMac /\ [][NextMac]_vars

(* C8: every response challenge || sig a worker has sent for               *)
(* CHALLENGE_CREATE(req) carries the MAC of req || challenge[:10] under    *)
(* the MAC key stored at <datadir>/key.                                    *)
C8_ResponseVerifies ==
  \A w \in Workers :
    mw[w].pc = "sent" =>
      /\ disk.mackey # NoFile
      /\ Drop(mw[w].out, 10) = Mac(disk.mackey, mw[w].req \o Take(mw[w].out, 10))

(* C9: once the MAC key file exists, no step of any worker changes it.     *)
C9_MacKeyWrittenOnce ==
  [][disk.mackey # NoFile => disk'.mackey = disk.mackey]_vars

----------------------------------------------------------------------------
(* verify_challenge, one check at a time *)

MaxTime == 13

\* equihash.solsize(n, k)
SolSize(n, k) == ((2 ^ k) * ((n \div (k + 1)) + 1)) \div 8

\* the solution of the Equihash puzzle (n, k) for seed
Solution(n, k, seed) == <<Fld(SolSize(n, k), "sol", <<n, k>> \o Digest(seed))>>

\* equihash.verify(n, k, seed, solution)
EquihashVerify(n, k, seed, sol) == sol = Solution(n, k, seed)

\* the MAC verify_challenge computes: over req, then challenge[:10]
VerifyMac(key, req, tosign) == Mac(key, req \o tosign)

\* sum(m ^ i for (m, i) in zip(mac, sig)) is not zero
MacMismatchNever(mac, sig) == FALSE
MacMismatch(mac, sig) == mac # sig

\* now - (RL_Timeouts[(n, k)] + rl_gracetime) > ts
TooOldOffByOne(t, n, k, ts) == t - (RL_Timeouts(n, k) + rl_gracetime) >= ts
TooOld(t, n, k, ts) == t - (RL_Timeouts(n, k) + rl_gracetime) > ts

VerifyReqs == {Req("GET", 1, 1), ShortReq("READ", 2)}
VerifyLevels == {1, 2}
IssueTimes == {0, 1}

\* the challenges a client can present: n || k || ts || sig, where sig is a
\* MAC some key made of some request and some challenge
ClientChallenges ==
  { Challenge(Difficulties[l].n, Difficulties[l].k, ts)
      \o Mac(MacKey(x), r \o Challenge(Difficulties[l2].n, Difficulties[l2].k, ts2))
    : l \in VerifyLevels, ts \in IssueTimes, x \in MacKeys, r \in VerifyReqs,
      l2 \in VerifyLevels, ts2 \in IssueTimes }

\* a store with one account made by CREATE_DKG
PowDisk == AccountDisk(1, AccountDir(<<Share(1, 1), Pub(1), Rules(1, RULE_SIZE)>>, Absent, Absent))

InitPow ==
  /\ disk \in {PowDisk, [PowDisk EXCEPT !.mackey = MacKey(1)]}
  /\ conn = NoConn
  /\ prev = EmptyDir
  /\ crash = IdleCrash
  /\ mw = IdleMac
  /\ vw = IdleVerify
  /\ served = 0
  /\ sup = IdleSup
  /\ pkt = IdlePkt
  /\ cw = IdleCreate
  /\ now = 1

\* ratelimit reads the op byte; for CHALLENGE_VERIFY verify_challenge reads
\* the challenge and the request
VerifyRead ==
  /\ vw.pc = "idle"
  /\ \/ \E c \in ClientChallenges, r \in VerifyReqs :
          vw' = [vw EXCEPT !.pc = "mac", !.challenge = c, !.req = r]
     \/ \E c \in ClientChallenges :       \* the challenge or the payload is short
          vw' = [vw EXCEPT !.pc = "failed", !.challenge = Take(c, 10), !.out = <<FailMsg>>]
     \/ \E r \in VerifyReqs :             \* the op byte is that of an account operation
          vw' = [vw EXCEPT !.pc = "closed", !.req = r]
  /\ UNCHANGED <<disk, conn, prev, crash, mw, served, now, sup, pkt, cw>>

\* the MAC key is read and the MAC compared
VerifyMacCheck ==
  /\ vw.pc = "mac"
  /\ LET key == disk.mackey
         sig == Take(Drop(vw.challenge, 10), 32)
         tosign == Take(vw.challenge, 10)
     IN vw' = IF key # NoFile /\ Size(key) # 32 THEN [vw EXCEPT !.pc = "exc"]
              ELSE IF key = NoFile THEN [vw EXCEPT !.pc = "failed", !.out = <<FailMsg>>]
              ELSE IF MacMismatch(VerifyMac(key, vw.req, tosign), sig)
              THEN [vw EXCEPT !.pc = "failed", !.key = key, !.out = <<FailMsg>>]
              ELSE [vw EXCEPT !.pc = "age", !.key = key, !.log = Append(vw.log, "mac")]
  /\ UNCHANGED <<disk, conn, prev, crash, mw, served, now, sup, pkt, cw>>

\* now = datetime.datetime.now().timestamp(), and the age of the challenge
VerifyAge ==
  /\ vw.pc = "age"
  /\ LET n == Take(vw.challenge, 1)[1].t[1]
         k == Take(Drop(vw.challenge, 1), 1)[1].t[1]
         ts == Take(Drop(vw.challenge, 2), 8)[1].t[1]
     IN vw' = IF ~InLadder(n, k) THEN [vw EXCEPT !.pc = "exc", !.tnow = now]
              ELSE IF TooOld(now, n, k, ts)
              THEN [vw EXCEPT !.pc = "failed", !.tnow = now, !.out = <<FailMsg>>]
              ELSE [vw EXCEPT !.pc = "sol", !.tnow = now, !.log = Append(vw.log, "age")]
  /\ UNCHANGED <<disk, conn, prev, crash, mw, served, now, sup, pkt, cw>>

\* the solution is read and verified; handler(conn, req) runs the operation
VerifySolution ==
  /\ vw.pc = "sol"
  /\ LET n == Take(vw.challenge, 1)[1].t[1]
         k == Take(Drop(vw.challenge, 1), 1)[1].t[1]
         seed == vw.challenge \o vw.req
     IN \E sol \in {Solution(n, k, seed), Solution(n, k, vw.req), Take(Solution(n, k, seed), 0)} :
          IF Size(sol) # SolSize(n, k) \/ ~EquihashVerify(n, k, seed, sol)
          THEN /\ vw' = [vw EXCEPT !.pc = "failed", !.sol = sol, !.out = <<FailMsg>>]
               /\ disk' = disk
          ELSE \E res \in Handler(disk, vw.req) :
                 /\ vw' = [vw EXCEPT !.pc = "handler", !.sol = sol, !.out = res.out,
                                     !.log = Append(vw.log, "pow"), !.dispatched = vw.req]
                 /\ disk' = res.d
  /\ UNCHANGED <<conn, prev, crash, mw, served, now, sup, pkt, cw>>

Tick ==
  /\ now < MaxTime
  /\ now' = now + 1
  /\ UNCHANGED <<disk, conn, prev, crash, mw, vw, served, sup, pkt, cw>>

NextPow == VerifyRead \/ VerifyMacCheck \/ VerifyAge \/ VerifySolution \/ Tick

SpecPow == InitPow /\ [][NextPow]_vars

ChalN == Take(vw.challenge, 1)[1].t[1]
ChalK == Take(Drop(vw.challenge, 1), 1)[1].t[1]
ChalTs == Take(Drop(vw.challenge, 2), 8)[1].t[1]
ChalSig == Drop(vw.challenge, 10)

(* C7: a request is dispatched to the handler only after the MAC under the *)
(* stored key over that request and the 10-byte challenge matched, then    *)
(* the challenge was found not older than timeout[(n,k)] + rl_gracetime,   *)
(* then the Equihash solution for the seed challenge || req verified; a    *)
(* worker that failed a check has dispatched nothing.                      *)
C7_PowGate ==
  /\ vw.dispatched # <<>> =>
       /\ vw.pc = "handler"
       /\ vw.log = <<"mac", "age", "pow">>
       /\ vw.key = disk.mackey /\ vw.key # NoFile
       /\ ChalSig = Mac(vw.key, vw.dispatched \o Take(vw.challenge, 10))
       /\ vw.tnow - ChalTs <= RL_Timeouts(ChalN, ChalK) + rl_gracetime
       /\ vw.sol = Solution(ChalN, ChalK, vw.challenge \o vw.dispatched)
  /\ vw.pc \in {"failed", "closed", "exc"} => 
       /\ vw.dispatched = <<>>
       /\ disk \in {PowDisk, [PowDisk EXCEPT !.mackey = MacKey(1)]}
  /\ vw.pc = "failed" => vw.out = <<FailMsg>>

C7_Witness ==
  /\ vw.pc = "handler"
  /\ vw.dispatched = Req("GET", 1, 1)
  /\ vw.tnow > ChalTs

\* the age check has run (it reads the clock, which is never negative)
AgeChecked == vw.tnow >= 0

(* C10: for a challenge whose MAC matched, the age check passes when       *)
(* now - ts = timeout[(n,k)] + rl_gracetime and ends the connection in the *)
(* fail marker, nothing dispatched, when now - ts is one second more.      *)
C10_FreshnessBoundary ==
  AgeChecked =>
    LET age == vw.tnow - ChalTs
        limit == RL_Timeouts(ChalN, ChalK) + rl_gracetime
    IN /\ age = limit => Len(vw.log) >= 2 /\ vw.log[2] = "age"
       /\ age = limit + 1 =>
            /\ vw.pc = "failed" /\ vw.log = <<"mac">>
            /\ vw.out = <<FailMsg>> /\ vw.dispatched = <<>>

C10_Witness ==
  /\ AgeChecked
  /\ vw.tnow - ChalTs = RL_Timeouts(ChalN, ChalK) + rl_gracetime
  /\ vw.pc = "handler"

----------------------------------------------------------------------------
(* The rate limiter: CHALLENGE_CREATE for one account, call after call *)

\* the seconds between the stored ts (or the last call) and the next call
RlGaps == {0, 1, rl_decay - 1, rl_decay, rl_decay + 1, 2 * rl_decay, 3 * rl_decay,
           (Len(Difficulties) - 1) * rl_decay}

\* the level bytes and counts a stored record can hold
RlLevels == {0, 1, 2, 3, Len(Difficulties) - 1, Len(Difficulties), 255}
RlCounts == {0, 1, 3}

RlDisk(rec) ==
  [PowDisk EXCEPT !.mackey = MacKey(1), !.files[1]["difficulty"] = rec]

\* an account with any difficulty record, written at time 0, or none
InitRl ==
  /\ disk \in {RlDisk(NoFile)} \cup {RlDisk(RlCtx(l, c, 0)) : l \in RlLevels, c \in RlCounts}
  /\ conn = NoConn
  /\ prev = EmptyDir
  /\ crash = IdleCrash
  /\ mw = IdleMac
  /\ vw = IdleVerify
  /\ served = 0
  /\ sup = IdleSup
  /\ pkt = IdlePkt
  /\ cw = IdleCreate
  /\ now \in RlGaps

\* the worker exits and the next connection arrives g seconds later
NextArrival ==
  /\ mw[1].pc \in {"sent", "failed", "exc"}
  /\ \E g \in RlGaps : now' = now + g
  /\ mw' = [mw EXCEPT ![1] = IdleWorker]
  /\ UNCHANGED <<disk, conn, prev, crash, vw, served, sup, pkt, cw>>

NextRl == ChallengeBegin(1) \/ ChallengeLoadKey(1) \/ ChallengeSend(1) \/ NextArrival

SpecRl == InitRl /\ [][NextRl]_vars

\* the difficulty record of account 1
Stored == disk.files[1]["difficulty"]

\* this step is create_challenge stepping the difficulty of account 1
Stepped == served' = served + 1 /\ ReqId(mw'[1].req) = 1 /\ mw'[1].pc = "loadkey"

\* the rung of the ladder whose n the challenge c carries
RungOf(c) == CHOOSE l \in 1..Len(Difficulties) : Difficulties[l].n = Take(c, 1)[1].t[1]

\* the stored record takes the escalation branch at time t
Escalates(diff, t) ==
  /\ diff # NoFile
  /\ RlLevel(diff) < Len(Difficulties)
  /\ ~((t - rl_decay) > RlTs(diff) /\ RlLevel(diff) > 0)

(* C11: whatever the stored record, the level create_challenge writes and  *)
(* uses to pick (n,k) is in 0..L-1; on the last rung the escalation branch *)
(* leaves the level and adds one to count.                                 *)
C11_LevelInRange ==
  [][Stepped =>
       /\ Stored' # NoFile
       /\ RlLevel(Stored') \in 0..(Len(Difficulties) - 1)
       /\ RlTs(Stored') = now
       /\ RungOf(mw'[1].challenge) = RlLevel(Stored') + 1
       /\ (Escalates(Stored, now) /\ RlLevel(Stored) = Len(Difficulties) - 1) =>
            /\ RlLevel(Stored') = Len(Difficulties) - 1
            /\ RlCount(Stored') = RlCount(Stored) + 1]_vars

\* the record says the last rung with count past the threshold, written by
\* a call that found the last rung
C11_Witness ==
  /\ served >= 2
  /\ mw[1].pc = "sent"
  /\ mw[1].diff # NoFile
  /\ RlLevel(mw[1].diff) = Len(Difficulties) - 1
  /\ RlCount(mw[1].diff) > rl_threshold
  /\ Stored = RlCtx(Len(Difficulties) - 1, RlCount(mw[1].diff) + 1, now)

(* C13: from a stored level > 0 in range with now - ts > rl_decay the new  *)
(* level is max(0, level - floor((now - ts) / rl_decay)) and the new count *)
(* is 0; from level 3 after two full periods the challenge is of level 1.  *)
C13_DecayStep ==
  [][(Stepped /\ Stored # NoFile /\ RlLevel(Stored) \in 1..(Len(Difficulties) - 1)
        /\ now - RlTs(Stored) > rl_decay) =>
       LET periods == (now - RlTs(Stored)) \div rl_decay
           lvl == IF RlLevel(Stored) - periods > 0 THEN RlLevel(Stored) - periods ELSE 0
       IN /\ RlLevel(Stored') = lvl
          /\ RlCount(Stored') = 0
          /\ RungOf(mw'[1].challenge) = lvl + 1
          /\ (RlLevel(Stored) = 3 /\ now - RlTs(Stored) = 2 * rl_decay) =>
               RlLevel(Stored') = 1]_vars

\* a level-1 record written two full periods after a record of level 3
C13_Witness ==
  /\ served = 1
  /\ mw[1].pc = "sent"
  /\ now = 2 * rl_decay
  /\ mw[1].diff = RlCtx(3, 1, 0)
  /\ Stored = RlCtx(1, 0, now)
  /\ RungOf(mw[1].challenge) = 2

(* C14, as claimed: from any stored level in 0..L-1, a call at a time with *)
(* now - ts >= rl_decay * level persists level 0 and count 0.              *)
C14_SilenceResetsAll ==
  [][(Stepped /\ Stored # NoFile /\ RlLevel(Stored) \in 0..(Len(Difficulties) - 1)
        /\ now - RlTs(Stored) >= rl_decay * RlLevel(Stored)) =>
       RlLevel(Stored') = 0 /\ RlCount(Stored') = 0]_vars

(* C14, amended: from a stored level in 1..L-1, a call at a time with      *)
(* now - ts >= rl_decay * level and now - ts > rl_decay persists level 0   *)
(* and count 0.                                                            *)
C14_SilenceResets ==
  [][(Stepped /\ Stored # NoFile /\ RlLevel(Stored) \in 1..(Len(Difficulties) - 1)
        /\ now - RlTs(Stored) >= rl_decay * RlLevel(Stored)
        /\ now - RlTs(Stored) > rl_decay) =>
       Stored' = RlCtx(0, 0, now)]_vars

\* the record is reset by the first call, which found the top level with a
\* count, L-1 periods after it was written
C14_Witness ==
  /\ served = 1
  /\ mw[1].pc = "loadkey"
  /\ now = (Len(Difficulties) - 1) * rl_decay
  /\ mw[1].diff = RlCtx(Len(Difficulties) - 1, 1, 0)
  /\ Stored = RlCtx(0, 0, now)
  /\ RungOf(mw[1].challenge) = 1

----------------------------------------------------------------------------
(* Escalation: the calls start from no record or from a count of 0 *)

\* stored records carry ts = 0 and the clock is past 0, so that a record
\* with ts > 0 is one a call wrote
InitEsc ==
  /\ InitRl
  /\ now > 0
  /\ Stored = NoFile \/ RlCount(Stored) = 0

SpecEsc == InitEsc /\ [][NextRl]_vars

(* C12: starting from no difficulty record or from one with count 0, when  *)
(* rl_threshold + 1 calls in a row for the account fall within less than   *)
(* rl_decay seconds, the n of the last is one rung above the n of the      *)
(* first.  rl_threshold + 1 is 2: the first call is the one before the     *)
(* last, and the record the last call loaded is the one the first wrote.   *)
C12_Escalation ==
  (/\ served = rl_threshold + 1
   /\ mw[1].pc \in {"loadkey", "sign", "sent"}
   /\ mw[1].diff # NoFile
   /\ RlTs(mw[1].diff) > 0
   /\ now - RlTs(mw[1].diff) < rl_decay)
    => RungOf(mw[1].challenge) = (RlLevel(mw[1].diff) + 1) + 1

----------------------------------------------------------------------------
(* Error handling of the account operations *)

(* C15: CREATE and CREATE_DKG for an id whose directory exists send the    *)
(* fail marker and nothing else, and leave the whole data directory as it  *)
(* was.                                                                    *)
C15_CreateOnExisting ==
  [][(ConnOp(conn') \in {"CREATE", "CREATE_DKG"} /\ Exists(disk, ConnId(conn'))) =>
       /\ conn'.end = "fail"
       /\ conn'.out = <<FailMsg>>
       /\ disk' = disk]_vars

\* a well-formed CREATE_DKG has failed on the account a CREATE_DKG made
C15_Witness ==
  /\ conn.req = DkgReq(1, 1, 1)
  /\ conn.end = "fail"
  /\ Exists(disk, 1)
  /\ Size(disk.files[1]["key"]) = 33

\* a data directory with no account: with or without the directory itself,
\* the MAC key and the directory of an enrolled host id
HostDir(d, hid) == SaveBlob(SaveBlob(Mkdir(d, hid), hid, "pub", Pub(1)), hid, "blob", HostBlob(1))

InitAbsent ==
  /\ disk \in {EmptyDisk, MkDataDir(EmptyDisk), [MkDataDir(EmptyDisk) EXCEPT !.mackey = MacKey(1)],
               HostDir(MkDataDir(EmptyDisk), 2),
               [HostDir(MkDataDir(EmptyDisk), 2) EXCEPT !.mackey = MacKey(1)]}
  /\ conn = NoConn
  /\ prev = EmptyDir
  /\ crash = IdleCrash
  /\ mw = IdleMac
  /\ vw = IdleVerify
  /\ served = 0
  /\ sup = IdleSup
  /\ pkt = IdlePkt
  /\ cw = IdleCreate
  /\ now \in {0, 1}

NextAbsent ==
  \/ DoHandler \/ DoRead
  \/ ChallengeBegin(1) \/ ChallengeLoadKey(1) \/ ChallengeGenKey(1)
  \/ ChallengeSend(1) \/ WorkerExit(1)

SpecAbsent == InitAbsent /\ [][NextAbsent]_vars

(* C16: for an id with no directory, a step of create_challenge for it     *)
(* makes no directory and writes no file under it, and every operation     *)
(* dispatched for it (GET, CHANGE, CHANGE_DKG, COMMIT, UNDO, DELETE, READ) *)
(* sends the fail marker alone and leaves the disk as it was.              *)
C16_AbsentId ==
  [][/\ (mw'[1] # mw[1] /\ mw'[1].req # <<>> /\ ~Exists(disk, ReqId(mw'[1].req))) =>
          /\ disk'.dd = disk.dd
          /\ disk'.dirs = disk.dirs
          /\ disk'.files = disk.files
     /\ (mw' = mw /\ ConnOp(conn') \in AccountOps \cup {"READ"}
           /\ ~Exists(disk, ConnId(conn'))) =>
          /\ conn'.end = "fail"
          /\ conn'.out = <<FailMsg>>
          /\ disk' = disk]_vars

\* a challenge was sent for the id that has no directory, and a GET for it
\* has failed
C16_Witness ==
  /\ mw[1].pc = "sent"
  /\ ReqId(mw[1].req) = 1
  /\ conn.req = Req("GET", 1, 1)
  /\ conn.end = "fail"
  /\ ~Exists(disk, 1)
  /\ disk.files[1] = EmptyDir

(* C17: every connection that ends in an error (through fail(), by an     *)
(* exception such as load_blob's ValueError for a blob of the wrong size,  *)
(* or on an unknown opcode after the proof of work) has the fail marker as *)
(* the last thing sent.                                                    *)
C17_FailMarker ==
  (conn.end \in {"fail", "exc"} \/ ConnOp(conn) = "UNKNOWN") =>
    /\ conn.out # <<>>
    /\ conn.out[Len(conn.out)] = FailMsg

----------------------------------------------------------------------------
(* The supervisor's accept loop *)

max_kids == 5

\* the pids fork() can return: none that is running or not yet reaped
Pids == 1..(max_kids + 2)

InitKids ==
  /\ disk = EmptyDisk
  /\ conn = NoConn
  /\ prev = EmptyDir
  /\ crash = IdleCrash
  /\ mw = IdleMac
  /\ vw = IdleVerify
  /\ served = 0
  /\ now = 0
  /\ sup = IdleSup
  /\ pkt = IdlePkt
  /\ cw = IdleCreate

\* the workers that exited and were not reaped
Zombies == sup.kids \ sup.live

\* len(kids) > max_kids
OverCap(kids) == Cardinality(kids) > max_kids

\* s.accept() returns a connection
Accept ==
  /\ sup.pc = "accept"
  /\ sup' = [sup EXCEPT !.pc = "cap"]
  /\ UNCHANGED <<disk, conn, prev, crash, mw, vw, served, now, pkt, cw>>

\* s.accept() times out: os.waitpid(-1, os.WNOHANG), kids.remove(pid)
AcceptTimeout ==
  /\ sup.pc = "accept"
  /\ \/ \E p \in Zombies : sup' = [sup EXCEPT !.kids = @ \ {p}]
     \/ Zombies = {} /\ sup' = sup
  /\ UNCHANGED <<disk, conn, prev, crash, mw, vw, served, now, pkt, cw>>

\* while len(kids) > max_kids: os.waitpid(0, 0) blocks until a worker has
\* exited; kids.remove(pid)
CapWait ==
  /\ sup.pc = "cap"
  /\ OverCap(sup.kids)
  /\ \E p \in Zombies : sup' = [sup EXCEPT !.kids = @ \ {p}]
  /\ UNCHANGED <<disk, conn, prev, crash, mw, vw, served, now, pkt, cw>>

\* pid = os.fork(); kids.append(pid)
Fork ==
  /\ sup.pc = "cap"
  /\ ~OverCap(sup.kids)
  /\ \E p \in Pids \ sup.kids :
       sup' = [sup EXCEPT !.pc = "reap", !.kids = @ \cup {p}, !.live = @ \cup {p}]
  /\ UNCHANGED <<disk, conn, prev, crash, mw, vw, served, now, pkt, cw>>

\* os.waitpid(-1, os.WNOHANG) after the fork
ReapAfterFork ==
  /\ sup.pc = "reap"
  /\ \/ \E p \in Zombies : sup' = [sup EXCEPT !.pc = "accept", !.kids = @ \ {p}]
     \/ Zombies = {} /\ sup' = [sup EXCEPT !.pc = "accept"]
  /\ UNCHANGED <<disk, conn, prev, crash, mw, vw, served, now, pkt, cw>>

\* a worker has served its connection: sys.exit(0) or os._exit(0)
WorkerDone ==
  /\ \E p \in sup.live : sup' = [sup EXCEPT !.live = @ \ {p}]
  /\ UNCHANGED <<disk, conn, prev, crash, mw, vw, served, now, pkt, cw>>

NextKids == Accept \/ AcceptTimeout \/ CapWait \/ Fork \/ ReapAfterFork \/ WorkerDone

SpecKids == InitKids /\ [][NextKids]_vars

(* C18: the workers forked and not yet reaped are never more than          *)
(* max_kids.                                                               *)
C18_MaxKids == Cardinality(sup.kids) <= max_kids

----------------------------------------------------------------------------
(* Authentication before mutation *)

MutatingOps == {"CHANGE", "CHANGE_DKG", "COMMIT", "UNDO", "DELETE"}

\* the 64-byte signatures in the transcript of connection c
IsSig(x) == Len(x) = 1 /\ x[1].c = "sig" /\ x[1].w = 64

\* auth has received a signature of the nonce that verifies under the pub
\* file of the account in d, and has sent its marker next
AuthVerified(c, d) ==
  \E n \in 1..(Len(c.out) - 1) :
    /\ IsSig(c.out[n])
    /\ SigVerifies(c.out[n], Nonce, LoadBlob(d, ConnId(c), "pub"))
    /\ c.out[n + 1] = AuthMsg

\* auth has received a signature that does not verify under that pub file
AuthRefused(c, d) ==
  \E n \in 1..Len(c.out) :
    /\ IsSig(c.out[n])
    /\ ~SigVerifies(c.out[n], Nonce, LoadBlob(d, ConnId(c), "pub"))

\* a stored host blob is among the bytes sent
BlobSent(c) ==
  \E n \in 1..Len(c.out) : \E i \in 1..Len(c.out[n]) : c.out[n][i].c = "blob"

(* C19: CHANGE, CHANGE_DKG, COMMIT, UNDO and DELETE change the account's   *)
(* directory or files, and READ sends the blob, only on a connection whose *)
(* auth handshake verified the client's signature of the nonce under the   *)
(* live pub the account had when the connection began; a signature that    *)
(* does not verify ends the connection in the fail marker with the disk    *)
(* unchanged.                                                              *)
C19_AuthBeforeMutation ==
  [][/\ (/\ ConnOp(conn') \in MutatingOps
         /\ \/ disk'.files[ConnId(conn')] # disk.files[ConnId(conn')]
            \/ disk'.dirs[ConnId(conn')] # disk.dirs[ConnId(conn')])
          => AuthVerified(conn', disk)
     /\ (ConnOp(conn') = "READ" /\ BlobSent(conn')) => AuthVerified(conn', disk)
     /\ (ConnOp(conn') \in MutatingOps \cup {"READ"} /\ AuthRefused(conn', disk)) =>
          /\ conn'.end = "fail"
          /\ conn'.out[Len(conn'.out)] = FailMsg
          /\ disk' = disk]_vars

\* a DELETE has removed the account after its auth handshake
C19_Witness ==
  /\ ConnOp(conn) = "DELETE"
  /\ SentOk(conn)
  /\ Authed(conn)
  /\ ~Exists(disk, ConnId(conn))

----------------------------------------------------------------------------
(* COMMIT and UNDO on account directories with files missing *)

\* which of the three files of a triple are there: after the writes of
\* create (key, pub, rules), after those of change or commit_undo (key,
\* rules, pub) and after the unlinks of commit_undo (key, pub, rules), each
\* stopped after any number of them
LiveShapes == {<<FALSE, FALSE, FALSE>>, <<TRUE, FALSE, FALSE>>, <<TRUE, TRUE, FALSE>>,
               <<TRUE, TRUE, TRUE>>}
StagedShapes == {<<FALSE, FALSE, FALSE>>, <<TRUE, FALSE, FALSE>>, <<TRUE, FALSE, TRUE>>,
                 <<TRUE, TRUE, TRUE>>, <<FALSE, TRUE, TRUE>>, <<FALSE, FALSE, TRUE>>}

Shaped(triple, shape) == [n \in 1..3 |-> IF shape[n] THEN triple[n] ELSE NoFile]

\* the live triple of create or create_dkg, the triple staged by change or
\* change_dkg, the .old triple of a commit
LiveTriples == {<<Scalar(1), Pub(1), Rules(1, RULE_SIZE)>>, <<Share(1, 1), Pub(1), Rules(1, RULE_SIZE)>>}
StagedTriples == {<<Scalar(2), Pub(2), Rules(2, RULE_SIZE)>>, <<Share(1, 2), Pub(2), Rules(2, RULE_SIZE)>>}
OldTriples == {<<Share(1, 2), Pub(2), Rules(2, RULE_SIZE)>>}

InitMissing ==
  /\ disk \in {AccountDisk(1, AccountDir(Shaped(l, ls), Shaped(n, ns), Shaped(o, os))) :
                 l \in LiveTriples, ls \in LiveShapes, n \in StagedTriples, ns \in StagedShapes,
                 o \in OldTriples, os \in StagedShapes}
  /\ conn = NoConn
  /\ prev = EmptyDir
  /\ crash = IdleCrash
  /\ mw = IdleMac
  /\ vw = IdleVerify
  /\ served = 0
  /\ sup = IdleSup
  /\ pkt = IdlePkt
  /\ cw = IdleCreate
  /\ now = 0

\* handler(conn, req) for a COMMIT or an UNDO
DoCommitUndo ==
  \E o \in {"COMMIT", "UNDO"}, i \in AccountIds, a \in Points :
    Serve(Req(o, i, a), Handler(disk, Req(o, i, a)))

SpecMissing == InitMissing /\ [][DoCommitUndo]_vars

\* some file of the set fs is missing in the directory dir
Missing(dir, fs) == \E f \in fs : dir[f] = NoFile

MaxPktSize == 3
MaxEmptyRecvs == 2
ByteVals == {0, 1}
Byte(x) == Fld(1, "byte", <<x>>)

RECURSIVE BytesOfLen(_)
BytesOfLen(n) ==
  IF n = 0 THEN {<<>>}
  ELSE {Append(b, Byte(x)) : b \in BytesOfLen(n - 1), x \in ByteVals}

RECURSIVE Join(_)
Join(chunks) ==
  IF chunks = <<>> THEN <<>> ELSE Head(chunks) \o Join(Tail(chunks))

EmptyRecvs(chunks) == Cardinality({i \in DOMAIN chunks : chunks[i] = <<>>})

PktLoop(size, read) == IF read < size THEN "loop" ELSE "returned"

InitPkt ==
  /\ disk = EmptyDisk
  /\ conn = NoConn
  /\ prev = EmptyDir
  /\ crash = IdleCrash
  /\ mw = [w \in Workers |-> IdleWorker]
  /\ vw = IdleVerify
  /\ served = 0
  /\ now = 0
  /\ sup = IdleSup
  /\ cw = IdleCreate
  /\ \E size \in 0..MaxPktSize, n \in 0..MaxPktSize, closed \in BOOLEAN :
       \E peer \in BytesOfLen(n) :
         pkt = [pc |-> "call", size |-> size, read |-> 0, res |-> <<>>,
                peer |-> peer, stream |-> peer, closed |-> closed]

\* lines 101-103: the locals and the first test of the loop
ReadPktEnter ==
  /\ pkt.pc = "call"
  /\ pkt' = [pkt EXCEPT !.pc = PktLoop(pkt.size, 0), !.read = 0, !.res = <<>>]
  /\ UNCHANGED <<disk, conn, prev, crash, mw, vw, served, now, sup, cw>>

\* recv returns between one and size-read of the bytes that have arrived
RecvChunk ==
  /\ pkt.pc = "loop"
  /\ pkt.stream # <<>>
  /\ \E n \in 1..(pkt.size - pkt.read) :
       /\ n <= Size(pkt.stream)
       /\ pkt' = [pkt EXCEPT !.res = Append(@, Take(pkt.stream, n)),
                             !.stream = Drop(pkt.stream, n),
                             !.read = pkt.read + n,
                             !.pc = PktLoop(pkt.size, pkt.read + n)]
  /\ UNCHANGED <<disk, conn, prev, crash, mw, vw, served, now, sup, cw>>

\* the peer has closed and nothing is left: recv returns b'', which is
\* appended, read gains 0 and the test of line 103 holds as before
RecvEof ==
  /\ pkt.pc = "loop"
  /\ pkt.stream = <<>>
  /\ pkt.closed
  /\ EmptyRecvs(pkt.res) < MaxEmptyRecvs
  /\ pkt' = [pkt EXCEPT !.res = Append(@, <<>>),
                        !.read = pkt.read + Size(<<>>),
                        !.pc = PktLoop(pkt.size, pkt.read + Size(<<>>))]
  /\ UNCHANGED <<disk, conn, prev, crash, mw, vw, served, now, sup, cw>>

\* the peer is open and silent: recv raises socket.timeout after the default
\* timeout main sets, and read_pkt does not catch it
RecvTimeout ==
  /\ pkt.pc = "loop"
  /\ pkt.stream = <<>>
  /\ ~pkt.closed
  /\ pkt' = [pkt EXCEPT !.pc = "exc"]
  /\ UNCHANGED <<disk, conn, prev, crash, mw, vw, served, now, sup, cw>>

NextPkt ==
  \/ ReadPktEnter
  \/ RecvChunk
  \/ RecvEof
  \/ RecvTimeout

SpecPkt == InitPkt /\ [][NextPkt]_vars

\* C21: a read that returns has received exactly the first size bytes the
\* peer delivered, and once recv has returned zero bytes (the stream ended
\* before size bytes arrived) the read is no longer in its loop: it has ended
\* in a failure.
C21_ExactRead ==
  /\ pkt.pc = "returned" =>
       /\ Join(pkt.res) = Take(pkt.peer, pkt.size)
       /\ Size(Join(pkt.res)) = pkt.size
  /\ EmptyRecvs(pkt.res) > 0 => pkt.pc \in {"failed", "exc"}

\* ---------------------------------------------------------------------------
\* Two workers in create or create_dkg for the same id.
\*
\* Each worker is a forked process with its own connection; the workers share
\* the data directory only.  One action is one stretch of a handler between
\* two of its file-system calls: the call and the code up to the next one.
\* cw[w] holds the locals of worker w: k (the OPRF key or DKG share), pk and
\* rules of the record, and in update_blob hid (the host id), hpk (the key the
\* client enrols) and hblob (the blob to save).

RaceId == 1
RaceHostIds == {0, 1, 2}
RaceReqs == {Req("CREATE", RaceId, 1), DkgReq(1, RaceId, 1)}
RaceSignedIds == {IdBytes(h) \o Sign(who, IdBytes(h)) : h \in RaceHostIds, who \in PubKeys}
RaceEnds == {"done", "fail", "exc"}

CwFail(w) == cw' = [cw EXCEPT ![w].pc = "fail", ![w].out = Append(@, FailMsg)]
CwExc(w) == cw' = [cw EXCEPT ![w].pc = "exc"]

InitRace ==
  /\ disk \in {EmptyDisk, MkDataDir(EmptyDisk)}
  /\ conn = NoConn
  /\ prev = EmptyDir
  /\ crash = IdleCrash
  /\ mw = [w \in Workers |-> IdleWorker]
  /\ vw = IdleVerify
  /\ served = 0
  /\ now = 0
  /\ sup = IdleSup
  /\ pkt = IdlePkt
  /\ cw = IdleCreate

\* create lines 219-240, create_dkg lines 312-340: the uniqueness check, the
\* key (randombytes or the DKG) and beta
CreateCheck(w) ==
  /\ cw[w].pc = "idle"
  /\ \E msg \in RaceReqs :
       LET alpha == ReqAlpha(msg) IN
       IF Exists(disk, ReqId(msg))
       THEN cw' = [cw EXCEPT ![w].pc = "fail", ![w].req = msg,
                             ![w].out = Append(@, FailMsg)]
       ELSE IF ReqOp(msg) = "CREATE"
       THEN \E s \in Scalars :
              cw' = [cw EXCEPT ![w].pc = "record", ![w].req = msg,
                               ![w].k = Scalar(s),
                               ![w].out = <<Evaluate(Scalar(s), alpha)>>]
       ELSE \/ \E e \in DkgEnds :
                 cw' = [cw EXCEPT ![w].pc = e, ![w].req = msg,
                                  ![w].out = IF e = "fail" THEN <<FailMsg>> ELSE <<>>]
            \/ \E xi \in DkgShares(1) :
                 cw' = [cw EXCEPT ![w].pc = "record", ![w].req = msg,
                                  ![w].k = xi,
                                  ![w].out = <<Take(xi, 1) \o Evaluate(Drop(xi, 1), alpha)>>]
  /\ UNCHANGED <<disk, conn, prev, crash, mw, vw, served, now, sup, pkt>>

\* create lines 243-253, create_dkg lines 342-352: pubkey || rules || signature
CreateRecord(w) ==
  /\ cw[w].pc = "record"
  /\ \E msg \in RecordMsgs :
       IF Size(msg) # 32 + RULE_SIZE + 64 \/ ~VerifyBlobOk(msg, Take(msg, 32))
       THEN CwFail(w)
       ELSE cw' = [cw EXCEPT ![w].pc = "signed_id",
                             ![w].pk = Take(msg, 32),
                             ![w].rules = Drop(VerifiedBlob(msg), 32)]
  /\ UNCHANGED <<disk, conn, prev, crash, mw, vw, served, now, sup, pkt>>

\* update_blob lines 160-184: the signed id, the lookup of the host's key and
\* blob, and the blob (or the two zero bytes of a new host) sent to the client
BlobLookup(w) ==
  /\ cw[w].pc = "signed_id"
  /\ \E signed_id \in RaceSignedIds :
       LET hid == HexId(Take(signed_id, 32))
           pk == LoadBlob(disk, hid, "pub")
       IN
       IF hid = 0 THEN cw' = [cw EXCEPT ![w].pc = "mkdir"]
       ELSE IF pk = NoFile
       THEN IF Exists(disk, hid) THEN CwFail(w)
            ELSE cw' = [cw EXCEPT ![w].pc = "enrol", ![w].hid = hid,
                                  ![w].out = Append(@, <<Fld(2, "len", <<0>>)>>)]
       ELSE IF ~VerifyBlobOk(signed_id, pk) THEN CwFail(w)
       ELSE IF LoadBlob(disk, hid, "blob") = NoFile THEN CwFail(w)
       ELSE cw' = [cw EXCEPT ![w].pc = "update", ![w].hid = hid,
                             ![w].out = Append(@, LoadBlob(disk, hid, "blob"))]
  /\ UNCHANGED <<disk, conn, prev, crash, mw, vw, served, now, sup, pkt>>
\* update_blob lines 186-199: a new host's pk || prefix || blob || signature,
\* then the data directory
BlobEnrol(w) ==
  /\ cw[w].pc = "enrol"
  /\ \E p \in PubKeys, b \in BlobVals, who \in PubKeys :
       LET blob == Pub(p) \o HostBlob(b)
           msg == blob \o Sign(who, blob)
           pk == Take(msg, 32)
       IN IF ~VerifyBlobOk(msg, pk) THEN CwFail(w) /\ UNCHANGED disk
          ELSE /\ cw' = [cw EXCEPT ![w].pc = "enrol_stat", ![w].hpk = pk,
                                   ![w].hblob = Drop(VerifiedBlob(msg), 32)]
               /\ disk' = IF disk.dd THEN disk ELSE MkDataDir(disk)
  /\ UNCHANGED <<conn, prev, crash, mw, vw, served, now, sup, pkt>>
\* update_blob lines 200-201: os.path.exists(tdir)
BlobStat(w) ==
  /\ cw[w].pc = "enrol_stat"
  /\ cw' = [cw EXCEPT ![w].pc = IF Exists(disk, cw[w].hid) THEN "enrol_pub"
                                ELSE "enrol_mkdir"]
  /\ UNCHANGED <<disk, conn, prev, crash, mw, vw, served, now, sup, pkt>>
\* update_blob line 202: os.mkdir(tdir) raises FileExistsError on a directory
\* made since the test
BlobMkdir(w) ==
  /\ cw[w].pc = "enrol_mkdir"
  /\ IF Exists(disk, cw[w].hid) THEN CwExc(w) /\ UNCHANGED disk
     ELSE /\ disk' = Mkdir(disk, cw[w].hid)
          /\ cw' = [cw EXCEPT ![w].pc = "enrol_pub"]
  /\ UNCHANGED <<conn, prev, crash, mw, vw, served, now, sup, pkt>>
\* update_blob line 204: save_blob(id, 'pub', pk)
BlobSavePub(w) ==
  /\ cw[w].pc = "enrol_pub"
  /\ disk' = SaveBlob(disk, cw[w].hid, "pub", cw[w].hpk)
  /\ cw' = [cw EXCEPT ![w].pc = "save_blob"]
  /\ UNCHANGED <<conn, prev, crash, mw, vw, served, now, sup, pkt>>
\* update_blob lines 206-215: a known host's prefix || blob || signature,
\* verified under the key on disk
BlobUpdate(w) ==
  /\ cw[w].pc = "update"
  /\ \E b \in BlobVals, who \in PubKeys :
       LET msg == HostBlob(b) \o Sign(who, HostBlob(b)) IN
       IF ~VerifyBlobOk(msg, LoadBlob(disk, cw[w].hid, "pub")) THEN CwFail(w)
       ELSE cw' = [cw EXCEPT ![w].pc = "save_blob", ![w].hblob = VerifiedBlob(msg)]
  /\ UNCHANGED <<disk, conn, prev, crash, mw, vw, served, now, sup, pkt>>
\* update_blob line 216: save_blob(id, 'blob', blob)
BlobSave(w) ==
  /\ cw[w].pc = "save_blob"
  /\ disk' = SaveBlob(disk, cw[w].hid, "blob", cw[w].hblob)
  /\ cw' = [cw EXCEPT ![w].pc = "mkdir"]
  /\ UNCHANGED <<conn, prev, crash, mw, vw, served, now, sup, pkt>>
\* create lines 258-260, create_dkg lines 357-359: os.mkdir(tdir) raises
\* FileExistsError when the directory is there
CreateMkdir(w) ==
  /\ cw[w].pc = "mkdir"
  /\ LET d1 == IF disk.dd THEN disk ELSE MkDataDir(disk) IN
       IF Exists(d1, ReqId(cw[w].req)) THEN disk' = d1 /\ CwExc(w)
       ELSE /\ disk' = Mkdir(d1, ReqId(cw[w].req))
            /\ cw' = [cw EXCEPT ![w].pc = "save_key"]
  /\ UNCHANGED <<conn, prev, crash, mw, vw, served, now, sup, pkt>>
\* create line 262, create_dkg line 361
CreateSaveKey(w) ==
  /\ cw[w].pc = "save_key"
  /\ disk' = SaveBlob(disk, ReqId(cw[w].req), "key", cw[w].k)
  /\ cw' = [cw EXCEPT ![w].pc = "save_pub"]
  /\ UNCHANGED <<conn, prev, crash, mw, vw, served, now, sup, pkt>>
\* create line 263, create_dkg line 362
CreateSavePub(w) ==
  /\ cw[w].pc = "save_pub"
  /\ disk' = SaveBlob(disk, ReqId(cw[w].req), "pub", cw[w].pk)
  /\ cw' = [cw EXCEPT ![w].pc = "save_rules"]
  /\ UNCHANGED <<conn, prev, crash, mw, vw, served, now, sup, pkt>>
\* create line 264, create_dkg line 363
CreateSaveRules(w) ==
  /\ cw[w].pc = "save_rules"
  /\ disk' = SaveBlob(disk, ReqId(cw[w].req), "rules", cw[w].rules)
  /\ cw' = [cw EXCEPT ![w].pc = "send_ok"]
  /\ UNCHANGED <<conn, prev, crash, mw, vw, served, now, sup, pkt>>
\* create line 266, create_dkg line 365: s.send(b'ok')
CreateSendOk(w) ==
  /\ cw[w].pc = "send_ok"
  /\ cw' = [cw EXCEPT ![w].pc = "done", ![w].out = Append(@, OkMsg)]
  /\ UNCHANGED <<disk, conn, prev, crash, mw, vw, served, now, sup, pkt>>
NextRace ==
  \E w \in Workers :
    \/ CreateCheck(w)
    \/ CreateRecord(w)
    \/ BlobLookup(w)
    \/ BlobEnrol(w)
    \/ BlobStat(w)
    \/ BlobMkdir(w)
    \/ BlobSavePub(w)
    \/ BlobUpdate(w)
    \/ BlobSave(w)
    \/ CreateMkdir(w)
    \/ CreateSaveKey(w)
    \/ CreateSavePub(w)
    \/ CreateSaveRules(w)
    \/ CreateSendOk(w)

SpecRace == InitRace /\ [][NextRace]_vars

RepliedOk(w) == cw[w].pc = "done" /\ OkMsg \in {cw[w].out[i] : i \in DOMAIN cw[w].out}
RaceOver == \A w \in Workers : cw[w].pc \in RaceEnds
RaceFile(f) == LoadBlob(disk, RaceId, f)

\* C22: of two workers in create or create_dkg for the same id at most one
\* replies 'ok', and when both have ended after one replied 'ok', the key, pub
\* and rules files of the account directory are the three that worker saved.
C22_CreateRace ==
  /\ ~(RepliedOk(1) /\ RepliedOk(2))
  /\ \A w \in Workers :
       RaceOver /\ RepliedOk(w) =>
         /\ RaceFile("key") = cw[w].k
         /\ RaceFile("pub") = cw[w].pk
         /\ RaceFile("rules") = cw[w].rules

====
